---------------------------- MODULE Spec2Model ----------------------------
(***************************************************************************)
(* Model of the Telegram / language-model bridge in                        *)
(* src/genai_serverless/lambda/lambda_handler.py.                          *)
(*                                                                         *)
(* A text (a Python str) is a sequence of characters.  A character is a    *)
(* one-character string, or, where a string of this language cannot hold   *)
(* it (most control characters, the backtick, every non-ASCII character),  *)
(* the name of its code point: "U+00E9".  A URL or a JSON document is a    *)
(* sequence of units: a unit is one character or one escape ("%21", "+",   *)
(* "%C3%A9", "\\n") standing for a character.                               *)
(*                                                                         *)
(* Two specifications share the state:                                     *)
(*   Spec         the handler served by one warm context, cold starts      *)
(*                included;                                                *)
(*   SpecDeliver  send_telegram_message called on its own with texts of    *)
(*                several 4096-character windows.                          *)
(***************************************************************************)
EXTENDS Integers, Sequences, FiniteSets, TLC

VARIABLES
    memory,           \* memory.chat_memory.messages (module level, line 11)
    pc,               \* position of the thread of control
    event,            \* handler's parameter
    message,          \* handler's local: the extracted question
    model_response,   \* handler's local: the model's answer
    exc,              \* str() of the exception in flight
    error_message,    \* handler's local in the except block
    prompt,           \* the prompt handed to the language model (empty: none)
    caller,           \* who called send_telegram_message: "try","except","direct"
    send_message,     \* send_telegram_message's parameter
    message_chunks,   \* send_telegram_message's local list
    chunk_idx,        \* position of the for loop in message_chunks (1-based)
    calls,            \* requests.post calls of this invocation, in order
    result,           \* what the invocation gave its caller
    turns,            \* history: <<question, answer>> of each model success
    memory_at_entry,  \* history: memory when the invocation began
    model_outcome,    \* history: "pending", "returned", "raised"
    failed            \* history: stage that raised first: "none","extract","invoke","deliver"

vars == <<memory, pc, event, message, model_response, exc, error_message, prompt,
          caller, send_message, message_chunks, chunk_idx, calls, result, turns,
          memory_at_entry, model_outcome, failed>>

-----------------------------------------------------------------------------
(* Bounds of the model *)

\* requests one warm context serves before the platform recycles it
MaxTurns == 3

\* blocks a text handed directly to send_telegram_message is built from
MaxBlocks == 3

(* Program constant: the chunk size of line 54 *)
ChunkSize == 4096

-----------------------------------------------------------------------------
(* Texts *)

Rep(c, n) == [i \in 1..n |-> c]

Min2(a, b) == IF a <= b THEN a ELSE b

EmptyText == << >>

Hello == <<"H","e","l","l","o">>

HiThere == <<"H","i"," ","t","h","e","r","e","!">>

UpstreamTimeout ==
    <<"u","p","s","t","r","e","a","m"," ","t","i","m","e","o","u","t">>

TimedOut == <<"t","i","m","e","d"," ","o","u","t">>

KeyErrorBody == <<"'","b","o","d","y","'">>

JSONDecodeErrorText ==
    <<"E","x","p","e","c","t","i","n","g"," ","v","a","l","u","e",":"," ","l","i","n","e",
      " ","1"," ","c","o","l","u","m","n"," ","1"," ","(","c","h","a","r"," ","0",")">>

AttrErrNone ==
    <<"'","N","o","n","e","T","y","p","e","'"," ","o","b","j","e","c","t"," ","h","a","s",
      " ","n","o"," ","a","t","t","r","i","b","u","t","e"," ","'","g","e","t","'">>

AttrErrStr ==
    <<"'","s","t","r","'"," ","o","b","j","e","c","t"," ","h","a","s"," ","n","o"," ","a",
      "t","t","r","i","b","u","t","e"," ","'","g","e","t","'">>

AttrErrList ==
    <<"'","l","i","s","t","'"," ","o","b","j","e","c","t"," ","h","a","s"," ","n","o"," ",
      "a","t","t","r","i","b","u","t","e"," ","'","g","e","t","'">>

\* two windows: 4096 times "a", then an e with an acute accent
LongAnswer == Rep("a", ChunkSize) \o <<"U+00E9">>

\* a space, a form feed and a no-break space: empty after strip()
BlankText == <<" ", "\f", "U+00A0">>

\* answers the language model gives in Spec
Answers == {HiThere, BlankText, LongAnswer}

\* str(e) of the exceptions invoke_model raises
ModelErrors == {UpstreamTimeout, EmptyText}

\* str(e) of the exceptions requests.post raises
PostErrors == {TimedOut}

\* what the platform does with a call that reaches it: HTTP 200, or an HTTP
\* error status (requests.post returns the response either way)
PostReplies == {"ok", "rejected"}

Blocks == {Rep("a", ChunkSize), Rep(" ", ChunkSize), BlankText, HiThere}

RECURSIVE TextsOf(_)
TextsOf(n) ==
    IF n = 0 THEN {EmptyText}
    ELSE LET T == TextsOf(n - 1) IN T \cup {t \o b : t \in T, b \in Blocks}

\* texts handed to send_telegram_message in SpecDeliver
DirectTexts == TextsOf(MaxBlocks)

-----------------------------------------------------------------------------
(* json.loads and extract_message (lines 14-16) *)

JObject(f) == [t |-> "dict", v |-> f]
JString(s) == [t |-> "str", v |-> s]
JNull == [t |-> "NoneType", v |-> << >>]
JList == [t |-> "list", v |-> << >>]

EmptyDict == JObject(<< >>)

Ok(v) == [ok |-> TRUE, value |-> v, error |-> EmptyText]
Raise(e) == [ok |-> FALSE, value |-> JNull, error |-> e]

\* the bodies the platform (or anyone else) posts
Bodies ==
    { "{\"message\":{\"text\":\"Hello\"}}",
      "{\"message\":{}}",
      "{}",
      "{\"message\":null}",
      "{\"message\":\"hi\"}",
      "[]",
      "not json" }

\* json.loads on the bodies above
JsonLoads(s) ==
    CASE s = "{\"message\":{\"text\":\"Hello\"}}" ->
             Ok(JObject([message |-> JObject([text |-> JString(Hello)])]))
      [] s = "{\"message\":{}}"     -> Ok(JObject([message |-> EmptyDict]))
      [] s = "{}"                   -> Ok(EmptyDict)
      [] s = "{\"message\":null}"   -> Ok(JObject([message |-> JNull]))
      [] s = "{\"message\":\"hi\"}" -> Ok(JObject([message |-> JString(<<"h","i">>)]))
      [] s = "[]"                   -> Ok(JList)
      [] OTHER                      -> Raise(JSONDecodeErrorText)

\* str(AttributeError) of x.get where x is no dict
AttributeErrorText(t) ==
    CASE t = "NoneType" -> AttrErrNone
      [] t = "str"      -> AttrErrStr
      [] OTHER          -> AttrErrList

\* x.get(key, default): AttributeError unless x is a dict
DictGet(x, key, default) ==
    IF x.t # "dict" THEN Raise(AttributeErrorText(x.t))
    ELSE IF key \in DOMAIN x.v THEN Ok(x.v[key])
    ELSE Ok(default)

Events == {[body |-> b] : b \in Bodies} \cup {[path |-> "/"]}

extract_message(ev) ==
    IF "body" \notin DOMAIN ev THEN Raise(KeyErrorBody)
    ELSE LET body == JsonLoads(ev.body) IN
         IF ~body.ok THEN body
         ELSE LET m == DictGet(body.value, "message", EmptyDict) IN
              IF ~m.ok THEN m
              ELSE DictGet(m.value, "text", JString(EmptyText))

-----------------------------------------------------------------------------
(* ConversationBufferMemory and the prompt (lines 11, 19-37) *)

HumanPrefix == <<"H","u","m","a","n",":"," ">>

AIPrefix == <<"A","I",":"," ">>

TemplateHead ==
    <<"Y","o","u"," ","a","r","e"," ","a"," ","n","i","c","e"," ","c","h","a","t","b","o",
      "t"," ","h","a","v","i","n","g"," ","a"," ","c","o","n","v","e","r","s","a","t",
      "i","o","n"," ","w","i","t","h"," ","a"," ","h","u","m","a","n",".","\n","\n"," ",
      " "," "," ","P","r","e","v","i","o","u","s"," ","c","o","n","v","e","r","s","a",
      "t","i","o","n",":","\n"," "," "," "," ">>

TemplateMid ==
    <<"\n","\n"," "," "," "," ","N","e","w"," ","h","u","m","a","n"," ","q","u","e","s","t",
      "i","o","n",":"," ">>

TemplateTail ==
    <<"\n"," "," "," "," ","R","e","s","p","o","n","s","e",":">>

HumanMessage(q) == [type |-> "human", content |-> q]
AIMessage(a) == [type |-> "ai", content |-> a]

MessageLine(m) ==
    (IF m.type = "human" THEN HumanPrefix ELSE AIPrefix) \o m.content

\* the buffer rendered for {chat_history}: "Human: q\nAI: a\n..."
RECURSIVE BufferAsString(_)
BufferAsString(msgs) ==
    IF msgs = << >> THEN EmptyText
    ELSE IF Len(msgs) = 1 THEN MessageLine(msgs[1])
    ELSE MessageLine(msgs[1]) \o <<"\n">> \o BufferAsString(Tail(msgs))

\* PromptTemplate.from_template(template).format(chat_history, question)
FormatPrompt(chat_history, question) ==
    TemplateHead \o chat_history \o TemplateMid \o question \o TemplateTail

\* memory.save_context: the question, then the answer, at the end
SaveContextDropsQuestion(msgs, q, a) == msgs \o <<AIMessage(a)>>

SaveContextPrepends(msgs, q, a) == <<HumanMessage(q), AIMessage(a)>> \o msgs

SaveContext(msgs, q, a) == msgs \o <<HumanMessage(q), AIMessage(a)>>

-----------------------------------------------------------------------------
(* create_response and json.dumps (lines 40-45, 76-79) *)

DumpsHead == <<"{","\"","m","e","s","s","a","g","e","\"",":"," ","\"">>

DumpsTail == <<"\"","}">>

\* the characters ' '..'~' but for the quote and the backslash
PlainAscii ==
    {" ", "!", "#", "$", "%", "&", "'", "(", ")", "*", "+", ",", "-", ".", "/", "0",
     "1", "2", "3", "4", "5", "6", "7", "8", "9", ":", ";", "<", "=", ">", "?", "@",
     "A", "B", "C", "D", "E", "F", "G", "H", "I", "J", "K", "L", "M", "N", "O", "P",
     "Q", "R", "S", "T", "U", "V", "W", "X", "Y", "Z", "[", "]", "^", "_", "U+0060", "a",
     "b", "c", "d", "e", "f", "g", "h", "i", "j", "k", "l", "m", "n", "o", "p", "q",
     "r", "s", "t", "u", "v", "w", "x", "y", "z", "{", "|", "}", "~"}

\* json.dumps (ensure_ascii) escapes every character but these; the escape
\* of one character
JsonEscape(c) ==
    IF c \in PlainAscii THEN c
    ELSE CASE c = "\"" -> "\\\""
           [] c = "\\" -> "\\\\"
           [] c = "U+0000" -> "\\u0000"
           [] c = "U+0001" -> "\\u0001"
           [] c = "U+0002" -> "\\u0002"
           [] c = "U+0003" -> "\\u0003"
           [] c = "U+0004" -> "\\u0004"
           [] c = "U+0005" -> "\\u0005"
           [] c = "U+0006" -> "\\u0006"
           [] c = "U+0007" -> "\\u0007"
           [] c = "U+0008" -> "\\b"
           [] c = "\t" -> "\\t"
           [] c = "\n" -> "\\n"
           [] c = "U+000B" -> "\\u000b"
           [] c = "\f" -> "\\f"
           [] c = "\r" -> "\\r"
           [] c = "U+000E" -> "\\u000e"
           [] c = "U+000F" -> "\\u000f"
           [] c = "U+0010" -> "\\u0010"
           [] c = "U+0011" -> "\\u0011"
           [] c = "U+0012" -> "\\u0012"
           [] c = "U+0013" -> "\\u0013"
           [] c = "U+0014" -> "\\u0014"
           [] c = "U+0015" -> "\\u0015"
           [] c = "U+0016" -> "\\u0016"
           [] c = "U+0017" -> "\\u0017"
           [] c = "U+0018" -> "\\u0018"
           [] c = "U+0019" -> "\\u0019"
           [] c = "U+001A" -> "\\u001a"
           [] c = "U+001B" -> "\\u001b"
           [] c = "U+001C" -> "\\u001c"
           [] c = "U+001D" -> "\\u001d"
           [] c = "U+001E" -> "\\u001e"
           [] c = "U+001F" -> "\\u001f"
           [] c = "U+007F" -> "\\u007f"
           [] c = "U+0085" -> "\\u0085"
           [] c = "U+00A0" -> "\\u00a0"
           [] c = "U+00E9" -> "\\u00e9"
           [] c = "U+1680" -> "\\u1680"
           [] c = "U+2000" -> "\\u2000"
           [] c = "U+2001" -> "\\u2001"
           [] c = "U+2002" -> "\\u2002"
           [] c = "U+2003" -> "\\u2003"
           [] c = "U+2004" -> "\\u2004"
           [] c = "U+2005" -> "\\u2005"
           [] c = "U+2006" -> "\\u2006"
           [] c = "U+2007" -> "\\u2007"
           [] c = "U+2008" -> "\\u2008"
           [] c = "U+2009" -> "\\u2009"
           [] c = "U+200A" -> "\\u200a"
           [] c = "U+200B" -> "\\u200b"
           [] c = "U+2028" -> "\\u2028"
           [] c = "U+2029" -> "\\u2029"
           [] c = "U+202F" -> "\\u202f"
           [] c = "U+205F" -> "\\u205f"
           [] c = "U+3000" -> "\\u3000"

\* json.dumps({'message': m})
JsonDumpsMessage(m) ==
    DumpsHead \o [i \in 1..Len(m) |-> JsonEscape(m[i])] \o DumpsTail

NoResult == [kind |-> "none", statusCode |-> 0, body |-> EmptyText, error |-> EmptyText]

Response(code, m) ==
    [kind |-> "return", statusCode |-> code, body |-> JsonDumpsMessage(m),
     error |-> EmptyText]

Escaped(e) == [kind |-> "raise", statusCode |-> 0, body |-> EmptyText, error |-> e]

ReturnedNone == [kind |-> "return", statusCode |-> 0, body |-> EmptyText,
                 error |-> EmptyText]

create_responseEmptyBody(m) == Response(200, EmptyText)

create_response(m) == Response(200, m)

-----------------------------------------------------------------------------
(* send_telegram_message (lines 48-62) *)

\* os.environ.get("TELEGRAM_TOKEN"), os.environ.get("TELEGRAM_CHAT_ID")
TelegramToken == <<"t","o","k">>

TelegramChatId == <<"4","2">>

UrlHead ==
    <<"h","t","t","p","s",":","/","/","a","p","i",".","t","e","l","e","g","r","a","m",".",
      "o","r","g","/","b","o","t">>

UrlMid ==
    <<"/","s","e","n","d","M","e","s","s","a","g","e","?","c","h","a","t","_","i","d","=">>

UrlTail == <<">","&","t","e","x","t","=">>

\* str.strip() removes these from both ends: every character c with
\* c.isspace()
Whitespace ==
    {"\t", "\n", "U+000B", "\f", "\r", "U+001C", "U+001D", "U+001E", "U+001F", " ",
     "U+0085", "U+00A0", "U+1680", "U+2000", "U+2001", "U+2002", "U+2003", "U+2004",
     "U+2005", "U+2006", "U+2007", "U+2008", "U+2009", "U+200A", "U+2028", "U+2029",
     "U+202F", "U+205F", "U+3000"}

Strip(s) ==
    IF \A i \in 1..Len(s) : s[i] \in Whitespace THEN EmptyText
    ELSE LET first == CHOOSE i \in 1..Len(s) :
                          /\ s[i] \notin Whitespace
                          /\ \A j \in 1..(i - 1) : s[j] \in Whitespace
             last  == CHOOSE i \in 1..Len(s) :
                          /\ s[i] \notin Whitespace
                          /\ \A j \in (i + 1)..Len(s) : s[j] \in Whitespace
         IN SubSeq(s, first, last)

\* characters urllib's quote leaves alone
Unreserved ==
    {"a","b","c","d","e","f","g","h","i","j","k","l","m","n","o","p","q","r","s","t","u",
     "v","w","x","y","z","A","B","C","D","E","F","G","H","I","J","K","L","M","N","O","P",
     "Q","R","S","T","U","V","W","X","Y","Z","0","1","2","3","4","5","6","7","8","9",
     "_", ".", "-", "~"}

PercentCode(c) ==
    CASE c = "!" -> "%21"
      [] c = "\"" -> "%22"
      [] c = "#" -> "%23"
      [] c = "$" -> "%24"
      [] c = "%" -> "%25"
      [] c = "&" -> "%26"
      [] c = "'" -> "%27"
      [] c = "(" -> "%28"
      [] c = ")" -> "%29"
      [] c = "*" -> "%2A"
      [] c = "+" -> "%2B"
      [] c = "," -> "%2C"
      [] c = "/" -> "%2F"
      [] c = ":" -> "%3A"
      [] c = ";" -> "%3B"
      [] c = "<" -> "%3C"
      [] c = "=" -> "%3D"
      [] c = ">" -> "%3E"
      [] c = "?" -> "%3F"
      [] c = "@" -> "%40"
      [] c = "[" -> "%5B"
      [] c = "\\" -> "%5C"
      [] c = "]" -> "%5D"
      [] c = "^" -> "%5E"
      [] c = "U+0060" -> "%60"
      [] c = "{" -> "%7B"
      [] c = "|" -> "%7C"
      [] c = "}" -> "%7D"
      [] c = "U+0000" -> "%00"
      [] c = "U+0001" -> "%01"
      [] c = "U+0002" -> "%02"
      [] c = "U+0003" -> "%03"
      [] c = "U+0004" -> "%04"
      [] c = "U+0005" -> "%05"
      [] c = "U+0006" -> "%06"
      [] c = "U+0007" -> "%07"
      [] c = "U+0008" -> "%08"
      [] c = "\t" -> "%09"
      [] c = "\n" -> "%0A"
      [] c = "U+000B" -> "%0B"
      [] c = "\f" -> "%0C"
      [] c = "\r" -> "%0D"
      [] c = "U+000E" -> "%0E"
      [] c = "U+000F" -> "%0F"
      [] c = "U+0010" -> "%10"
      [] c = "U+0011" -> "%11"
      [] c = "U+0012" -> "%12"
      [] c = "U+0013" -> "%13"
      [] c = "U+0014" -> "%14"
      [] c = "U+0015" -> "%15"
      [] c = "U+0016" -> "%16"
      [] c = "U+0017" -> "%17"
      [] c = "U+0018" -> "%18"
      [] c = "U+0019" -> "%19"
      [] c = "U+001A" -> "%1A"
      [] c = "U+001B" -> "%1B"
      [] c = "U+001C" -> "%1C"
      [] c = "U+001D" -> "%1D"
      [] c = "U+001E" -> "%1E"
      [] c = "U+001F" -> "%1F"
      [] c = "U+007F" -> "%7F"
      [] c = "U+0085" -> "%C2%85"
      [] c = "U+00A0" -> "%C2%A0"
      [] c = "U+00E9" -> "%C3%A9"
      [] c = "U+1680" -> "%E1%9A%80"
      [] c = "U+2000" -> "%E2%80%80"
      [] c = "U+2001" -> "%E2%80%81"
      [] c = "U+2002" -> "%E2%80%82"
      [] c = "U+2003" -> "%E2%80%83"
      [] c = "U+2004" -> "%E2%80%84"
      [] c = "U+2005" -> "%E2%80%85"
      [] c = "U+2006" -> "%E2%80%86"
      [] c = "U+2007" -> "%E2%80%87"
      [] c = "U+2008" -> "%E2%80%88"
      [] c = "U+2009" -> "%E2%80%89"
      [] c = "U+200A" -> "%E2%80%8A"
      [] c = "U+200B" -> "%E2%80%8B"
      [] c = "U+2028" -> "%E2%80%A8"
      [] c = "U+2029" -> "%E2%80%A9"
      [] c = "U+202F" -> "%E2%80%AF"
      [] c = "U+205F" -> "%E2%81%9F"
      [] c = "U+3000" -> "%E3%80%80"

\* parse.quote_plus, one unit per character of the chunk
QuoteChar(c) ==
    IF c \in Unreserved THEN c
    ELSE IF c = " " THEN "+"
    ELSE PercentCode(c)

quote_plus(chunk) == [i \in 1..Len(chunk) |-> QuoteChar(chunk[i])]

\* line 54: message[i:i + 4096] for i in range(0, len(message), 4096)
MessageChunksShort(msg) ==
    [k \in 1..((Len(msg) + ChunkSize - 1) \div ChunkSize) |->
        SubSeq(msg, (k - 1) * ChunkSize + 1, Min2(k * ChunkSize - 1, Len(msg)))]

MessageChunks(msg) ==
    [k \in 1..((Len(msg) + ChunkSize - 1) \div ChunkSize) |->
        SubSeq(msg, (k - 1) * ChunkSize + 1, Min2(k * ChunkSize, Len(msg)))]

\* line 56: if chunk.strip()
ChunkIsSentAlways(chunk) == TRUE

ChunkIsSent(chunk) == Strip(chunk) # EmptyText

\* line 59
ApiUrl(encoded_chunk) ==
    UrlHead \o TelegramToken \o UrlMid \o TelegramChatId \o UrlTail \o encoded_chunk

Call(chunk, outcome) ==
    [url |-> ApiUrl(quote_plus(chunk)), outcome |-> outcome, by |-> caller]


-----------------------------------------------------------------------------
(* The state after the module is imported (a cold start) *)

NoEvent == [path |-> "/"]

Init ==
    /\ memory = << >>
    /\ pc = "idle"
    /\ event = NoEvent
    /\ message = EmptyText
    /\ model_response = EmptyText
    /\ exc = EmptyText
    /\ error_message = EmptyText
    /\ prompt = EmptyText
    /\ caller = "none"
    /\ send_message = EmptyText
    /\ message_chunks = << >>
    /\ chunk_idx = 1
    /\ calls = << >>
    /\ result = NoResult
    /\ turns = << >>
    /\ memory_at_entry = << >>
    /\ model_outcome = "pending"
    /\ failed = "none"

\* send_telegram_message(m) is entered: lines 50-54
EnterSend(who, m) ==
    /\ caller' = who
    /\ send_message' = m
    /\ message_chunks' = MessageChunks(m)
    /\ chunk_idx' = 1
    /\ pc' = "send"

-----------------------------------------------------------------------------
(* handler (lines 65-79) *)

\* the platform calls handler(event, context) on the warm context
Invoke(ev) ==
    /\ pc \in {"idle", "done"}
    /\ Len(memory) < 2 * MaxTurns
    /\ event' = ev
    /\ pc' = "extract"
    /\ message' = EmptyText
    /\ model_response' = EmptyText
    /\ exc' = EmptyText
    /\ error_message' = EmptyText
    /\ prompt' = EmptyText
    /\ caller' = "none"
    /\ send_message' = EmptyText
    /\ message_chunks' = << >>
    /\ chunk_idx' = 1
    /\ calls' = << >>
    /\ result' = NoResult
    /\ memory_at_entry' = memory
    /\ model_outcome' = "pending"
    /\ failed' = "none"
    /\ UNCHANGED <<memory, turns>>

\* line 67: message = extract_message(event)
Extract ==
    /\ pc = "extract"
    /\ LET r == extract_message(event) IN
       IF r.ok
       THEN /\ message' = r.value.v
            /\ pc' = "invoke"
            /\ UNCHANGED <<exc, failed>>
       ELSE /\ exc' = r.error
            /\ failed' = "extract"
            /\ pc' = "except"
            /\ UNCHANGED message
    /\ UNCHANGED <<memory, event, model_response, error_message, prompt, caller,
                   send_message, message_chunks, chunk_idx, calls, result, turns,
                   memory_at_entry, model_outcome>>

\* line 68, the model answers a: the chain formats the prompt from the memory,
\* saves the turn, and line 69 calls send_telegram_message(model_response)
ModelReturns(a) ==
    /\ pc = "invoke"
    /\ prompt' = FormatPrompt(BufferAsString(memory), message)
    /\ memory' = SaveContext(memory, message, a)
    /\ model_response' = a
    /\ turns' = Append(turns, <<message, a>>)
    /\ model_outcome' = "returned"
    /\ EnterSend("try", a)
    /\ UNCHANGED <<event, message, exc, error_message, calls, result,
                   memory_at_entry, failed>>

\* line 68, invoke_model raises before its chain is called (the OpenAI
\* client of line 21, the template of line 29 or the chain of lines 30-35
\* cannot be built): no prompt is formatted or handed to the language model
ModelSetupRaises(e) ==
    /\ pc = "invoke"
    /\ exc' = e
    /\ failed' = "invoke"
    /\ model_outcome' = "raised"
    /\ pc' = "except"
    /\ UNCHANGED <<memory, event, message, model_response, error_message, prompt,
                   caller, send_message, message_chunks, chunk_idx, calls, result,
                   turns, memory_at_entry>>

\* line 68, the chain call of line 36 raises an exception whose str() is e:
\* the chain has read the memory and formatted the prompt, and saves nothing
ModelRaises(e) ==
    /\ pc = "invoke"
    /\ prompt' = FormatPrompt(BufferAsString(memory), message)
    /\ exc' = e
    /\ failed' = "invoke"
    /\ model_outcome' = "raised"
    /\ pc' = "except"
    /\ UNCHANGED <<memory, event, message, model_response, error_message, caller,
                   send_message, message_chunks, chunk_idx, calls, result, turns,
                   memory_at_entry>>

\* lines 72-75: error_message = str(e); send_telegram_message(error_message)
Except ==
    /\ pc = "except"
    /\ error_message' = exc
    /\ EnterSend("except", exc)
    /\ UNCHANGED <<memory, event, message, model_response, exc, prompt, calls,
                   result, turns, memory_at_entry, model_outcome, failed>>

-----------------------------------------------------------------------------
(* the loop of send_telegram_message (lines 55-62) *)

InLoop == pc = "send" /\ chunk_idx <= Len(message_chunks)

\* line 56 finds the chunk empty after strip(): nothing is sent
SkipChunk ==
    /\ InLoop
    /\ ~ChunkIsSent(message_chunks[chunk_idx])
    /\ chunk_idx' = chunk_idx + 1
    /\ UNCHANGED <<memory, pc, event, message, model_response, exc, error_message,
                   prompt, caller, send_message, message_chunks, calls, result,
                   turns, memory_at_entry, model_outcome, failed>>

\* lines 57-62: requests.post returns the platform's reply, whatever its status
PostChunk(reply) ==
    /\ InLoop
    /\ ChunkIsSent(message_chunks[chunk_idx])
    /\ calls' = Append(calls, Call(message_chunks[chunk_idx], reply))
    /\ chunk_idx' = chunk_idx + 1
    /\ UNCHANGED <<memory, pc, event, message, model_response, exc, error_message,
                   prompt, caller, send_message, message_chunks, result, turns,
                   memory_at_entry, model_outcome, failed>>

\* line 61: requests.post raises an exception whose str() is e.  In the try
\* block it is caught at line 72; in the except block nothing catches it.
PostRaises(e) ==
    /\ InLoop
    /\ ChunkIsSent(message_chunks[chunk_idx])
    /\ calls' = Append(calls, Call(message_chunks[chunk_idx], "raised"))
    /\ IF caller = "try"
       THEN /\ exc' = e
            /\ failed' = "deliver"
            /\ pc' = "except"
            /\ UNCHANGED result
       ELSE /\ result' = Escaped(e)
            /\ pc' = "done"
            /\ UNCHANGED <<exc, failed>>
    /\ UNCHANGED <<memory, event, message, model_response, error_message, prompt,
                   caller, send_message, message_chunks, chunk_idx, turns,
                   memory_at_entry, model_outcome>>

\* the loop is over: lines 70-71 after the try block's call, lines 76-79 after
\* the except block's
SendReturns ==
    /\ pc = "send"
    /\ chunk_idx > Len(message_chunks)
    /\ result' = CASE caller = "try"    -> create_response(model_response)
                   [] caller = "except" -> Response(500, error_message)
                   [] OTHER             -> ReturnedNone
    /\ pc' = "done"
    /\ UNCHANGED <<memory, event, message, model_response, exc, error_message,
                   prompt, caller, send_message, message_chunks, chunk_idx, calls,
                   turns, memory_at_entry, model_outcome, failed>>

\* the platform recycles the context: the module is imported afresh (line 11)
ColdStart ==
    /\ pc = "done"
    /\ memory' = << >>
    /\ pc' = "idle"
    /\ event' = NoEvent
    /\ message' = EmptyText
    /\ model_response' = EmptyText
    /\ exc' = EmptyText
    /\ error_message' = EmptyText
    /\ prompt' = EmptyText
    /\ caller' = "none"
    /\ send_message' = EmptyText
    /\ message_chunks' = << >>
    /\ chunk_idx' = 1
    /\ calls' = << >>
    /\ result' = NoResult
    /\ turns' = << >>
    /\ memory_at_entry' = << >>
    /\ model_outcome' = "pending"
    /\ failed' = "none"

Next ==
    \/ \E ev \in Events : Invoke(ev)
    \/ Extract
    \/ \E a \in Answers : ModelReturns(a)
    \/ \E e \in ModelErrors : ModelSetupRaises(e)
    \/ \E e \in ModelErrors : ModelRaises(e)
    \/ Except
    \/ SkipChunk
    \/ \E reply \in PostReplies : PostChunk(reply)
    \/ \E e \in PostErrors : PostRaises(e)
    \/ SendReturns
    \/ ColdStart

Spec == Init /\ [][Next]_vars

-----------------------------------------------------------------------------
(* send_telegram_message called on its own *)

InitDeliver ==
    /\ memory = << >>
    /\ pc = "send"
    /\ event = NoEvent
    /\ message = EmptyText
    /\ model_response = EmptyText
    /\ exc = EmptyText
    /\ error_message = EmptyText
    /\ prompt = EmptyText
    /\ caller = "direct"
    /\ send_message \in DirectTexts
    /\ message_chunks = MessageChunks(send_message)
    /\ chunk_idx = 1
    /\ calls = << >>
    /\ result = NoResult
    /\ turns = << >>
    /\ memory_at_entry = << >>
    /\ model_outcome = "pending"
    /\ failed = "none"

NextDeliver ==
    \/ SkipChunk
    \/ \E reply \in PostReplies : PostChunk(reply)
    \/ \E e \in PostErrors : PostRaises(e)
    \/ SendReturns

SpecDeliver == InitDeliver /\ [][NextDeliver]_vars


-----------------------------------------------------------------------------
(* What the claims speak of *)

\* the text parameter of a call's URL, as the platform decodes it
UnquoteUnit(u) ==
    IF u \in Unreserved THEN u
    ELSE CASE u = "+" -> " "
           [] u = "%21" -> "!"
           [] u = "%22" -> "\""
           [] u = "%23" -> "#"
           [] u = "%24" -> "$"
           [] u = "%25" -> "%"
           [] u = "%26" -> "&"
           [] u = "%27" -> "'"
           [] u = "%28" -> "("
           [] u = "%29" -> ")"
           [] u = "%2A" -> "*"
           [] u = "%2B" -> "+"
           [] u = "%2C" -> ","
           [] u = "%2F" -> "/"
           [] u = "%3A" -> ":"
           [] u = "%3B" -> ";"
           [] u = "%3C" -> "<"
           [] u = "%3D" -> "="
           [] u = "%3E" -> ">"
           [] u = "%3F" -> "?"
           [] u = "%40" -> "@"
           [] u = "%5B" -> "["
           [] u = "%5C" -> "\\"
           [] u = "%5D" -> "]"
           [] u = "%5E" -> "^"
           [] u = "%60" -> "U+0060"
           [] u = "%7B" -> "{"
           [] u = "%7C" -> "|"
           [] u = "%7D" -> "}"
           [] u = "%00" -> "U+0000"
           [] u = "%01" -> "U+0001"
           [] u = "%02" -> "U+0002"
           [] u = "%03" -> "U+0003"
           [] u = "%04" -> "U+0004"
           [] u = "%05" -> "U+0005"
           [] u = "%06" -> "U+0006"
           [] u = "%07" -> "U+0007"
           [] u = "%08" -> "U+0008"
           [] u = "%09" -> "\t"
           [] u = "%0A" -> "\n"
           [] u = "%0B" -> "U+000B"
           [] u = "%0C" -> "\f"
           [] u = "%0D" -> "\r"
           [] u = "%0E" -> "U+000E"
           [] u = "%0F" -> "U+000F"
           [] u = "%10" -> "U+0010"
           [] u = "%11" -> "U+0011"
           [] u = "%12" -> "U+0012"
           [] u = "%13" -> "U+0013"
           [] u = "%14" -> "U+0014"
           [] u = "%15" -> "U+0015"
           [] u = "%16" -> "U+0016"
           [] u = "%17" -> "U+0017"
           [] u = "%18" -> "U+0018"
           [] u = "%19" -> "U+0019"
           [] u = "%1A" -> "U+001A"
           [] u = "%1B" -> "U+001B"
           [] u = "%1C" -> "U+001C"
           [] u = "%1D" -> "U+001D"
           [] u = "%1E" -> "U+001E"
           [] u = "%1F" -> "U+001F"
           [] u = "%7F" -> "U+007F"
           [] u = "%C2%85" -> "U+0085"
           [] u = "%C2%A0" -> "U+00A0"
           [] u = "%C3%A9" -> "U+00E9"
           [] u = "%E1%9A%80" -> "U+1680"
           [] u = "%E2%80%80" -> "U+2000"
           [] u = "%E2%80%81" -> "U+2001"
           [] u = "%E2%80%82" -> "U+2002"
           [] u = "%E2%80%83" -> "U+2003"
           [] u = "%E2%80%84" -> "U+2004"
           [] u = "%E2%80%85" -> "U+2005"
           [] u = "%E2%80%86" -> "U+2006"
           [] u = "%E2%80%87" -> "U+2007"
           [] u = "%E2%80%88" -> "U+2008"
           [] u = "%E2%80%89" -> "U+2009"
           [] u = "%E2%80%8A" -> "U+200A"
           [] u = "%E2%80%8B" -> "U+200B"
           [] u = "%E2%80%A8" -> "U+2028"
           [] u = "%E2%80%A9" -> "U+2029"
           [] u = "%E2%80%AF" -> "U+202F"
           [] u = "%E2%81%9F" -> "U+205F"
           [] u = "%E3%80%80" -> "U+3000"

TextParamStart == Len(ApiUrl(EmptyText)) + 1

Received(c) ==
    [i \in 1..(Len(c.url) - TextParamStart + 1) |->
        UnquoteUnit(c.url[TextParamStart + i - 1])]

\* the message a response body carries, as a JSON parser reads it
JsonUnescape(u) ==
    IF u \in PlainAscii THEN u
    ELSE CASE u = "\\\"" -> "\""
           [] u = "\\\\" -> "\\"
           [] u = "\\u0000" -> "U+0000"
           [] u = "\\u0001" -> "U+0001"
           [] u = "\\u0002" -> "U+0002"
           [] u = "\\u0003" -> "U+0003"
           [] u = "\\u0004" -> "U+0004"
           [] u = "\\u0005" -> "U+0005"
           [] u = "\\u0006" -> "U+0006"
           [] u = "\\u0007" -> "U+0007"
           [] u = "\\b" -> "U+0008"
           [] u = "\\t" -> "\t"
           [] u = "\\n" -> "\n"
           [] u = "\\u000b" -> "U+000B"
           [] u = "\\f" -> "\f"
           [] u = "\\r" -> "\r"
           [] u = "\\u000e" -> "U+000E"
           [] u = "\\u000f" -> "U+000F"
           [] u = "\\u0010" -> "U+0010"
           [] u = "\\u0011" -> "U+0011"
           [] u = "\\u0012" -> "U+0012"
           [] u = "\\u0013" -> "U+0013"
           [] u = "\\u0014" -> "U+0014"
           [] u = "\\u0015" -> "U+0015"
           [] u = "\\u0016" -> "U+0016"
           [] u = "\\u0017" -> "U+0017"
           [] u = "\\u0018" -> "U+0018"
           [] u = "\\u0019" -> "U+0019"
           [] u = "\\u001a" -> "U+001A"
           [] u = "\\u001b" -> "U+001B"
           [] u = "\\u001c" -> "U+001C"
           [] u = "\\u001d" -> "U+001D"
           [] u = "\\u001e" -> "U+001E"
           [] u = "\\u001f" -> "U+001F"
           [] u = "\\u007f" -> "U+007F"
           [] u = "\\u0085" -> "U+0085"
           [] u = "\\u00a0" -> "U+00A0"
           [] u = "\\u00e9" -> "U+00E9"
           [] u = "\\u1680" -> "U+1680"
           [] u = "\\u2000" -> "U+2000"
           [] u = "\\u2001" -> "U+2001"
           [] u = "\\u2002" -> "U+2002"
           [] u = "\\u2003" -> "U+2003"
           [] u = "\\u2004" -> "U+2004"
           [] u = "\\u2005" -> "U+2005"
           [] u = "\\u2006" -> "U+2006"
           [] u = "\\u2007" -> "U+2007"
           [] u = "\\u2008" -> "U+2008"
           [] u = "\\u2009" -> "U+2009"
           [] u = "\\u200a" -> "U+200A"
           [] u = "\\u200b" -> "U+200B"
           [] u = "\\u2028" -> "U+2028"
           [] u = "\\u2029" -> "U+2029"
           [] u = "\\u202f" -> "U+202F"
           [] u = "\\u205f" -> "U+205F"
           [] u = "\\u3000" -> "U+3000"

JsonMessageOf(body) ==
    [i \in 1..(Len(body) - Len(DumpsHead) - Len(DumpsTail)) |->
        JsonUnescape(body[Len(DumpsHead) + i])]

IsJsonMessage(body) ==
    /\ Len(body) >= Len(DumpsHead) + Len(DumpsTail)
    /\ SubSeq(body, 1, Len(DumpsHead)) = DumpsHead
    /\ SubSeq(body, Len(body) - Len(DumpsTail) + 1, Len(body)) = DumpsTail

Blank(s) == \A i \in 1..Len(s) : s[i] \in Whitespace

\* ceil(Len(msg) / 4096)
NumWindows(msg) ==
    IF Len(msg) % ChunkSize = 0 THEN Len(msg) \div ChunkSize
    ELSE Len(msg) \div ChunkSize + 1

\* characters [4096*i, 4096*(i+1)) of msg, i counted from 0
Window(msg, i) ==
    [j \in 1..Min2(ChunkSize, Len(msg) - ChunkSize * i) |-> msg[ChunkSize * i + j]]

WindowsOf(msg) == 0..(NumWindows(msg) - 1)

NonBlankWindows(msg) == {i \in WindowsOf(msg) : ~Blank(Window(msg, i))}

\* the k-th (from 1) of the window numbers in nb
Nth(nb, k) == CHOOSE i \in nb : Cardinality({j \in nb : j < i}) = k - 1

RECURSIVE Concat(_)
Concat(seqs) == IF seqs = << >> THEN << >> ELSE Head(seqs) \o Concat(Tail(seqs))

ReceivedTexts == [k \in 1..Len(calls) |-> Received(calls[k])]

SendReturned == pc = "done" /\ result.kind = "return"

\* "Human: q\nAI: a" for each pair, joined by newlines
RECURSIVE Transcript(_)
Transcript(pairs) ==
    IF pairs = << >> THEN EmptyText
    ELSE HumanPrefix \o pairs[1][1] \o <<"\n">> \o AIPrefix \o pairs[1][2]
         \o (IF Len(pairs) = 1 THEN EmptyText
             ELSE <<"\n">> \o Transcript(Tail(pairs)))

\* the turns recorded before the model invocation of this handler call
PriorTurns ==
    IF model_outcome = "returned" THEN SubSeq(turns, 1, Len(turns) - 1) ELSE turns

HasTextPath(b) ==
    /\ b.t = "dict"
    /\ "message" \in DOMAIN b.v
    /\ b.v["message"].t = "dict"
    /\ "text" \in DOMAIN b.v["message"].v

\* the body parses and the parsed body has no message.text
MissingTextPath(ev) ==
    /\ "body" \in DOMAIN ev
    /\ JsonLoads(ev.body).ok
    /\ ~HasTextPath(JsonLoads(ev.body).value)

CarriesWindowOf(c, text) == \E i \in WindowsOf(text) : Received(c) = Window(text, i)

-----------------------------------------------------------------------------
(* The claims *)

\* C1: every invocation of handler returns a response with statusCode 200 or
\* 500 and lets no exception escape; when the call carrying the error
\* notification raises, handler still returns 500 with body {message: E}.
C1_AlwaysResponds ==
    pc = "done" =>
        /\ result.kind = "return"
        /\ result.statusCode \in {200, 500}
        /\ (failed # "none" => result = Response(500, error_message))

\* C2: when the model invocation raises with description E, handler issues a
\* delivery call carrying E, returns 500 with body {message: E}, and delivers
\* no answer.
C2_ModelFailureNotified ==
    (pc = "done" /\ model_outcome = "raised") =>
        /\ \E k \in 1..Len(calls) : Received(calls[k]) = exc
        /\ \A k \in 1..Len(calls) : calls[k].by = "except"
        /\ result.kind = "return"
        /\ result.statusCode = 500
        /\ IsJsonMessage(result.body)
        /\ JsonMessageOf(result.body) = exc

\* C3: in every completed invocation of handler, whatever the event and the
\* model outcome (an empty or whitespace-only answer or error description
\* included), the chat receives at least one delivered message (a delivery
\* call the platform accepted), and every message it receives is the model's
\* answer or the raw error description (a 4096-character window of it).
C3_AlwaysDelivers ==
    SendReturned =>
        /\ \E k \in 1..Len(calls) : calls[k].outcome = "ok"
        /\ \A k \in 1..Len(calls) :
              calls[k].outcome = "ok" =>
                  \/ CarriesWindowOf(calls[k], model_response)
                  \/ CarriesWindowOf(calls[k], error_message)

\* C4: the transcript handed to the model after N successful cycles of one
\* warm context is exactly the N prior (question, answer) pairs in arrival
\* order: every prompt handed to the model carries it, and a model call
\* that returns was handed one.
C4_TranscriptIsPriorTurns ==
    /\ model_outcome = "returned" => prompt # EmptyText
    /\ prompt # EmptyText =>
          /\ prompt = FormatPrompt(Transcript(PriorTurns), message)
          /\ Len(memory_at_entry) = 2 * Len(PriorTurns)

C4_Witness ==
    /\ model_outcome = "returned"
    /\ Len(PriorTurns) = 2
    /\ PriorTurns[1] # PriorTurns[2]
    /\ PriorTurns[1][2] = LongAnswer

\* C5 as stated: when no intermediate chunk (one between the first and the
\* last) is all whitespace, send_telegram_message issues ceil(L/4096) calls
\* whose chunks, concatenated, are the text.
C5_CallsPerWindow ==
    (/\ SendReturned
     /\ \A i \in WindowsOf(send_message) :
           (0 < i /\ i < NumWindows(send_message) - 1)
               => ~Blank(Window(send_message, i)))
    => /\ Len(calls) = NumWindows(send_message)
       /\ Concat(ReceivedTexts) = send_message

\* C5 amended: when no chunk at all (first, intermediate or last) is all
\* whitespace and send_telegram_message returns, it has issued ceil(L/4096)
\* calls, call i carrying characters [4096*i, 4096*(i+1)), at most 4096 of
\* them, and the chunks concatenated in call order are the text.
C5_CallsPerNonBlankWindow ==
    (/\ SendReturned
     /\ \A i \in WindowsOf(send_message) : ~Blank(Window(send_message, i)))
    => /\ Len(calls) = NumWindows(send_message)
       /\ \A k \in 1..Len(calls) :
             /\ Len(ReceivedTexts[k]) <= ChunkSize
             /\ ReceivedTexts[k] = Window(send_message, k - 1)
       /\ Concat(ReceivedTexts) = send_message

C5_Witness ==
    /\ SendReturned
    /\ Len(calls) = 2
    /\ Len(send_message) = ChunkSize + Len(HiThere)
    /\ Received(calls[2]) = HiThere

\* C6: an event whose parsed body has no message.text path makes
\* extract_message return the empty string and raise nothing.
C6_MissingPathYieldsEmpty ==
    (pc \notin {"idle", "extract"} /\ MissingTextPath(event)) =>
        /\ failed # "extract"
        /\ message = EmptyText

\* C7: handler never returns statusCode 200 for an invocation in which a
\* delivery call for the answer failed, whether the call raised or the
\* platform answered with an error.
C7_DeliveryFailureSurfaced ==
    (SendReturned /\ result.statusCode = 200) =>
        \A k \in 1..Len(calls) : calls[k].outcome = "ok"

\* C8: no delivery call carries an empty or all-whitespace chunk: the calls
\* issued are the windows that are not blank, in order, with the blank ones
\* left out and the ones after them still delivered.
C8_NoBlankChunkDelivered ==
    LET nb == NonBlankWindows(send_message) IN
    /\ Len(calls) <= Cardinality(nb)
    /\ \A k \in 1..Len(calls) :
          LET got == Received(calls[k]) IN
          /\ ~Blank(got)
          /\ got = Window(send_message, Nth(nb, k))
    /\ (SendReturned => Len(calls) = Cardinality(nb))

C8_Witness ==
    /\ SendReturned
    /\ NumWindows(send_message) = 3
    /\ Blank(Window(send_message, 1))
    /\ Len(calls) = 2
    /\ Received(calls[2]) = Window(send_message, 2)

\* C9: when extraction, model invocation and delivery raise nothing, handler
\* returns 200 with body {message: A}, A the model's text and the text handed
\* to delivery, after the last delivery call has returned; 200 is returned in
\* no other case.
C9_SuccessResponse ==
    /\ (pc = "done" /\ failed = "none") =>
          /\ result.kind = "return"
          /\ result.statusCode = 200
    /\ (result.kind = "return" /\ result.statusCode = 200) =>
          /\ pc = "done"
          /\ failed = "none"
          /\ model_outcome = "returned"
          /\ IsJsonMessage(result.body)
          /\ JsonMessageOf(result.body) = turns[Len(turns)][2]
          /\ send_message = turns[Len(turns)][2]
          /\ chunk_idx > Len(message_chunks)
          /\ Len(calls) = Cardinality(NonBlankWindows(send_message))
          /\ \A k \in 1..Len(calls) :
                calls[k].by = "try" /\ calls[k].outcome # "raised"

C9_Witness ==
    /\ result.kind = "return"
    /\ result.statusCode = 200
    /\ Len(calls) = 2
    /\ turns[Len(turns)][2] = LongAnswer

\* C10: memory changes only when a model invocation succeeds: that step
\* appends exactly one turn, before any delivery call; an invocation that
\* fails in extraction or in the model leaves memory as it found it, and the
\* turn stays when delivery of the answer fails.
C10_MemoryFrame ==
    [][ /\ (memory' # memory) =>
              \/ pc' = "idle" /\ memory' = << >>
              \/ /\ pc = "invoke"
                 /\ model_outcome' = "returned"
                 /\ memory' = memory \o <<HumanMessage(message),
                                          AIMessage(model_response')>>
                 /\ calls' = << >>
        /\ (pc = "invoke" /\ model_outcome' = "returned") => memory' # memory
        /\ (pc' = "done") =>
              memory' = IF model_outcome' = "returned"
                        THEN memory_at_entry' \o <<HumanMessage(message'),
                                                   AIMessage(model_response')>>
                        ELSE memory_at_entry'
      ]_vars

C10_Witness ==
    /\ pc = "done"
    /\ failed = "deliver"
    /\ result.statusCode = 500
    /\ Len(memory) = Len(memory_at_entry) + 2

=============================================================================
